---- MODULE Spec2Model ----
(***************************************************************************)
(* Backtracking VM of fancy-regex (src/vm.rs): the execution State with    *)
(* its copy-on-write undo log, and the dispatcher `run`.                   *)
(*                                                                         *)
(* Slots, program counters and string indices are 0-based as in the Rust   *)
(* code; TLA+ sequences are 1-based, so vec[i] is written vec[i + 1].      *)
(***************************************************************************)
EXTENDS Integers, Sequences, FiniteSets, TLC

\* ---------------------------------------------------------------- bounds
\* usize is modelled as a WordBits-bit unsigned integer.
WordBits == 8
\* max_stack handed to State::new by the operation harness.
MaxStack == 2
\* max_stack handed to State::new by run (MAX_STACK in the source, scaled down).
RunMaxStack == 6
\* longest input of the exhaustive input sets.
MaxLen == 5
\* n_saves of the State driven by the operation harness.
NSlots == 1
\* number of save, stack_push and stack_pop operations the operation harness
\* applies once stack_push and stack_pop are among its operations.
MaxWrites == 4
\* the counts of pushes and pops of a run are kept up to this number
MaxCount == 32

USIZE_MAX == 2 ^ WordBits - 1

VARIABLES
    state,      \* the engine State: saves, stack, oldsave, nsave, ...
    model,      \* the naive reference: full slot vector copied into every frame
    lastOp,     \* harness: the operation applied last
    multi,      \* harness: a save since the last push, pop or cut hit a slot
                \* already saved in its frame (after a pop: in the popped frame)
    folded,     \* harness: the current frame holds undo entries that
                \* backtrack_cut kept from discarded frames (after a pop: the
                \* popped frame did)
    shadow,     \* harness: what the operations should have done, kept
                \* without an undo log: the existing slots overwritten
                \* since each push (touched), the explicit stack as a plain
                \* sequence (exp) and its copy made at each push (exps),
                \* the number of writing operations applied in SpecOps
                \* (n), of stack_push / stack_pop since each push (eops); after a pop, the number
                \* applied in the popped frame (undone); after a cut,
                \* whether two of the ranges it merged held the same
                \* slot (dup)
    prog,       \* run: name of the program being executed
    s,          \* run: the input, a sequence of bytes
    pc,         \* run: program counter
    ix,         \* run: index into s
    at,         \* run: "dispatch", "fail" (the code after the 'fail loop),
                \* "returned" or "panicked"
    result,     \* run: "running", then "Some", "None" or "StackOverflow"
    depthAt,    \* run: backtrack stack height at the latest dispatch of each pc
    slotsAt,    \* run: the slot vector at the latest dispatch of each pc
    npush,      \* run: number of successful State::push calls, up to MaxCount
    npop,       \* run: number of State::pop calls, up to MaxCount
    prev        \* run: the result of the run before this one on the same
                \* input, "none" for the first run

vars == <<state, model, lastOp, multi, folded, shadow,
          prog, s, pc, ix, at, result, depthAt, slotsAt, npush, npop, prev>>

harnessVars == <<lastOp, multi, folded, shadow>>
runVars == <<prog, s, pc, ix, at, result, depthAt, slotsAt, npush, npop, prev>>

\* ------------------------------------------------------------------ State

State_new(n_saves, max_stack) ==
    [saves |-> [i \in 1..n_saves |-> USIZE_MAX],
     stack |-> <<>>,
     oldsave |-> <<>>,
     nsave |-> 0,
     explicit_sp |-> n_saves,
     max_stack |-> max_stack]

\* push with the bound tested after the frame is counted
push_off_by_one(st, p, i) ==
    IF Len(st.stack) <= st.max_stack
    THEN [ok |-> TRUE,
          st |-> [st EXCEPT !.stack = Append(@, <<p, i, st.nsave>>),
                            !.nsave = 0]]
    ELSE [ok |-> FALSE, st |-> st]

\* push leaving the count of undo entries of the current frame as it is
push_keep_nsave(st, p, i) ==
    IF Len(st.stack) < st.max_stack
    THEN [ok |-> TRUE,
          st |-> [st EXCEPT !.stack = Append(@, <<p, i, st.nsave>>)]]
    ELSE [ok |-> FALSE, st |-> st]

\* push a backtrack branch; ok = FALSE is Err(Error::StackOverflow)
push(st, p, i) ==
    IF Len(st.stack) < st.max_stack
    THEN [ok |-> TRUE,
          st |-> [st EXCEPT !.stack = Append(@, <<p, i, st.nsave>>),
                            !.nsave = 0]]
    ELSE [ok |-> FALSE, st |-> st]

\* pop dropping the n entries of oldsave without writing them back
pop_restore_discard(st, n) ==
    [st EXCEPT !.oldsave = SubSeq(@, 1, Len(@) - n)]

\* the loop of pop: n times, pop an entry of oldsave and write it back
RECURSIVE pop_restore(_, _)
pop_restore(st, n) ==
    IF n = 0 THEN st
    ELSE LET e == st.oldsave[Len(st.oldsave)]
         IN pop_restore([st EXCEPT !.oldsave = SubSeq(@, 1, Len(@) - 1),
                                   !.saves[e[1] + 1] = e[2]],
                        n - 1)

\* pop a backtrack branch (the caller guarantees a non-empty stack)
pop(st) ==
    LET r == pop_restore(st, st.nsave)
        f == r.stack[Len(r.stack)]
    IN [st |-> [r EXCEPT !.stack = SubSeq(@, 1, Len(@) - 1),
                         !.nsave = f[3]],
        pc |-> f[1],
        ix |-> f[2]]

\* save scanning the whole of oldsave instead of its top nsave entries
save_scan_all(st, slot, val) ==
    IF \E i \in 0..(Len(st.oldsave) - 1) : st.oldsave[Len(st.oldsave) - i][1] = slot
    THEN [st EXCEPT !.saves[slot + 1] = val]
    ELSE [st EXCEPT !.oldsave = Append(@, <<slot, st.saves[slot + 1]>>),
                    !.nsave = @ + 1,
                    !.saves[slot + 1] = val]

\* save without the scan for an entry of the same frame
save_always_log(st, slot, val) ==
    [st EXCEPT !.oldsave = Append(@, <<slot, st.saves[slot + 1]>>),
               !.nsave = @ + 1,
               !.saves[slot + 1] = val]

save(st, slot, val) ==
    IF \E i \in 0..(st.nsave - 1) : st.oldsave[Len(st.oldsave) - i][1] = slot
    THEN [st EXCEPT !.saves[slot + 1] = val]
    ELSE [st EXCEPT !.oldsave = Append(@, <<slot, st.saves[slot + 1]>>),
                    !.nsave = @ + 1,
                    !.saves[slot + 1] = val]

get(st, slot) == st.saves[slot + 1]

\* stack_push overwriting a slot of the explicit stack without save
stack_push_unlogged(st, val) ==
    LET s1 == IF Len(st.saves) = st.explicit_sp
              THEN [st EXCEPT !.saves = Append(@, st.explicit_sp + 1)]
              ELSE st
        sp == get(s1, s1.explicit_sp)
        s2 == IF Len(s1.saves) = sp
              THEN [s1 EXCEPT !.saves = Append(@, val)]
              ELSE [s1 EXCEPT !.saves[sp + 1] = val]
    IN save(s2, s2.explicit_sp, sp + 1)

\* push a value onto the explicit stack
stack_push(st, val) ==
    LET s1 == IF Len(st.saves) = st.explicit_sp
              THEN [st EXCEPT !.saves = Append(@, st.explicit_sp + 1)]
              ELSE st
        sp == get(s1, s1.explicit_sp)
        s2 == IF Len(s1.saves) = sp
              THEN [s1 EXCEPT !.saves = Append(@, val)]
              ELSE save(s1, sp, val)
    IN save(s2, s2.explicit_sp, sp + 1)

\* pop a value from the explicit stack
stack_pop(st) ==
    LET sp == get(st, st.explicit_sp) - 1
    IN [st |-> save(st, st.explicit_sp, sp), result |-> get(st, sp)]

backtrack_count(st) == Len(st.stack)

RECURSIVE sum_nsave(_, _)
\* sum of the nsave fields of stack[from ..] (0-based from)
sum_nsave(stack, from) ==
    IF from >= Len(stack) THEN 0
    ELSE stack[from + 1][3] + sum_nsave(stack, from + 1)

swap(seq, a, b) ==
    [seq EXCEPT ![a + 1] = seq[b + 1], ![b + 1] = seq[a + 1]]

\* the retain loop keeping every entry of the discarded frames
cut_retain_all(oldsave, oldsave_ix, i, saved) ==
    [oldsave |-> oldsave, oldsave_ix |-> Len(oldsave)]

RECURSIVE cut_retain(_, _, _, _)
\* the retain loop of backtrack_cut: keep the first entry of every slot
\* that is not in saved yet, moving it down to oldsave_ix
cut_retain(oldsave, oldsave_ix, i, saved) ==
    IF i >= Len(oldsave)
    THEN [oldsave |-> oldsave, oldsave_ix |-> oldsave_ix]
    ELSE LET slot == oldsave[i + 1][1]
         IN IF slot \notin saved
            THEN cut_retain(swap(oldsave, oldsave_ix, i), oldsave_ix + 1,
                            i + 1, saved \cup {slot})
            ELSE cut_retain(oldsave, oldsave_ix, i + 1, saved)

\* backtrack_cut dropping the undo entries of the frames it discards
backtrack_cut_drop(st, count) ==
    IF Len(st.stack) = count THEN st
    ELSE LET oldsave_ix == Len(st.oldsave) - st.nsave
                              - sum_nsave(st.stack, count + 1)
         IN [st EXCEPT !.stack = SubSeq(@, 1, count),
                       !.oldsave = SubSeq(@, 1, oldsave_ix),
                       !.nsave = st.stack[count + 1][3]]

\* backtrack_cut keeping the frame at height count
backtrack_cut_keep_one(st, count) ==
    IF Len(st.stack) = count THEN st
    ELSE LET oldsave_ix == Len(st.oldsave) - st.nsave
                              - sum_nsave(st.stack, count + 1)
             oldsave_start == oldsave_ix - st.stack[count + 1][3]
             saved == {st.oldsave[k][1] : k \in (oldsave_start + 1)..oldsave_ix}
             r == cut_retain(st.oldsave, oldsave_ix, oldsave_ix, saved)
         IN [st EXCEPT !.stack = SubSeq(@, 1, count + 1),
                       !.oldsave = SubSeq(r.oldsave, 1, r.oldsave_ix),
                       !.nsave = r.oldsave_ix - oldsave_start]

\* backtrack_cut writing the undo entries of the current frame back into
\* the slots, as a pop does, before it truncates the stack
backtrack_cut_rewind(st, count) ==
    IF Len(st.stack) = count THEN st
    ELSE [pop_restore(st, st.nsave) EXCEPT !.stack = SubSeq(@, 1, count),
                                           !.nsave = 0]

\* discard backtracks since the corresponding call to backtrack_count
backtrack_cut(st, count) ==
    IF Len(st.stack) = count THEN st
    ELSE LET oldsave_ix == Len(st.oldsave) - st.nsave
                              - sum_nsave(st.stack, count + 1)
             oldsave_start == oldsave_ix - st.stack[count + 1][3]
             saved == {st.oldsave[k][1] : k \in (oldsave_start + 1)..oldsave_ix}
             r == cut_retain(st.oldsave, oldsave_ix, oldsave_ix, saved)
         IN [st EXCEPT !.stack = SubSeq(@, 1, count),
                       !.oldsave = SubSeq(r.oldsave, 1, r.oldsave_ix),
                       !.nsave = r.oldsave_ix - oldsave_start]

\* ------------------------------------------- the naive full-copy reference
\* (tests::check_saves_for_operations: `stack` and `saves`)

Naive_new(n_saves) ==
    [saves |-> [i \in 1..n_saves |-> USIZE_MAX], stack |-> <<>>]

naive_push(m, p, i) == [m EXCEPT !.stack = Append(@, <<p, i, m.saves>>)]

naive_pop(m) ==
    [saves |-> m.stack[Len(m.stack)][3],
     stack |-> SubSeq(m.stack, 1, Len(m.stack) - 1)]

naive_save(m, slot, val) == [m EXCEPT !.saves[slot + 1] = val]

\* the reference for backtrack_cut: the stack of snapshots is truncated
naive_cut(m, count) == [m EXCEPT !.stack = SubSeq(@, 1, count)]

\* --------------------------------------------- the operations, in plain
\* touched[j + 1]: the slots that existed and were overwritten after the
\* j-th push still on the stack and before the next one

Shadow_new ==
    [touched |-> <<{}>>, exp |-> <<>>, exps |-> <<>>, n |-> 0,
     eops |-> <<0>>, undone |-> 0, dup |-> FALSE]

shadow_push(sh) ==
    [sh EXCEPT !.touched = Append(@, {}), !.exps = Append(@, sh.exp),
               !.eops = Append(@, 0), !.undone = 0, !.dup = FALSE]

shadow_pop(sh) ==
    [sh EXCEPT !.touched = SubSeq(@, 1, Len(@) - 1),
               !.exp = sh.exps[Len(sh.exps)],
               !.exps = SubSeq(@, 1, Len(@) - 1),
               !.eops = SubSeq(@, 1, Len(@) - 1),
               !.undone = sh.eops[Len(sh.eops)],
               !.dup = FALSE]

shadow_save(sh, slots) ==
    [sh EXCEPT !.touched[Len(sh.touched)] = @ \cup slots,
               !.undone = 0, !.dup = FALSE]

\* a stack_push or stack_pop that overwrote slots and left the explicit
\* stack exp
shadow_explicit(sh, slots, exp) ==
    [shadow_save(sh, slots) EXCEPT !.exp = exp, !.n = @ + 1,
                                   !.eops[Len(sh.eops)] = @ + 1]

\* a save that is counted
shadow_save_counted(sh, slots) == [shadow_save(sh, slots) EXCEPT !.n = @ + 1]

RECURSIVE sum_from(_, _)
sum_from(seq, from) ==
    IF from > Len(seq) THEN 0 ELSE seq[from] + sum_from(seq, from + 1)

\* the frames above count go, what was overwritten since them stays
\* overwritten
shadow_cut(sh, count) ==
    LET merged == (count + 1)..Len(sh.touched)
    IN [sh EXCEPT
          !.touched = Append(SubSeq(@, 1, count),
                             UNION {sh.touched[k] : k \in merged}),
          !.exps = SubSeq(@, 1, count),
          !.eops = Append(SubSeq(@, 1, count), sum_from(sh.eops, count + 1)),
          !.undone = 0,
          !.dup = \E k1, k2 \in merged :
                     k1 # k2 /\ sh.touched[k1] \cap sh.touched[k2] # {}]

\* ------------------------------------------------- the operation harness
\* (tests::check_saves_for_operations, extended with backtrack_cut)

\* values handed to save by the tests state_save_override(_twice)
Vals == {10, 20, 30}

\* the one value the saves of SpecOps write: its claims are about which slots
\* the undo log holds, and the explicit stack's values come from the state
OpsVals == {10}

Slots == 0..(NSlots - 1)

\* save found the slot among the top nsave entries of oldsave
already_saved(st, slot) ==
    \E i \in 0..(st.nsave - 1) : st.oldsave[Len(st.oldsave) - i][1] = slot

NoRun ==
    /\ prog = "none" /\ s = <<>> /\ pc = 0 /\ ix = 0 /\ at = "none"
    /\ result = "none" /\ depthAt = <<>> /\ slotsAt = <<>> /\ npush = 0 /\ npop = 0
    /\ prev = "none"

InitState ==
    /\ state = State_new(NSlots, MaxStack)
    /\ model = Naive_new(NSlots)
    /\ lastOp = "new"
    /\ multi = FALSE
    /\ folded = FALSE
    /\ shadow = Shadow_new
    /\ NoRun

OpPush ==
    /\ at = "none"
    /\ LET r == push(state, 0, 0)
       IN /\ state' = r.st
          /\ model' = IF r.ok THEN naive_push(model, 0, 0) ELSE model
          /\ lastOp' = IF r.ok THEN "push" ELSE "push_err"
          /\ multi' = IF r.ok THEN FALSE ELSE multi
          /\ folded' = IF r.ok THEN FALSE ELSE folded
          /\ shadow' = IF r.ok THEN shadow_push(shadow) ELSE shadow
    /\ UNCHANGED runVars

\* a pop of the empty stack is ignored
OpPop ==
    /\ at = "none"
    /\ model.stack # <<>>
    /\ state' = pop(state).st
    /\ model' = naive_pop(model)
    /\ lastOp' = "pop"
    /\ multi' = (lastOp # "pop" /\ multi)
    /\ folded' = (lastOp # "pop" /\ folded)
    /\ shadow' = shadow_pop(shadow)
    /\ UNCHANGED runVars

OpSave ==
    /\ at = "none"
    /\ \E slot \in Slots, val \in Vals :
          /\ state' = save(state, slot, val)
          /\ model' = naive_save(model, slot, val)
          /\ multi' = ((lastOp # "pop" /\ multi) \/ already_saved(state, slot))
          /\ shadow' = shadow_save(shadow, {slot})
    /\ lastOp' = "save"
    /\ folded' = (lastOp # "pop" /\ folded)
    /\ UNCHANGED runVars

OpCut ==
    /\ at = "none"
    /\ \E count \in 0..backtrack_count(state) :
          /\ state' = backtrack_cut(state, count)
          /\ model' = naive_cut(model, count)
          /\ shadow' = shadow_cut(shadow, count)
          /\ folded' = \/ (lastOp # "pop" /\ folded)
                        \/ /\ count < backtrack_count(state)
                           /\ state'.nsave > state.stack[count + 1][3]
    /\ lastOp' = "cut"
    /\ multi' = FALSE
    /\ UNCHANGED runVars

NextSave == OpPush \/ OpPop \/ OpSave

SpecSave == InitState /\ [][NextSave]_vars

NextState == OpPush \/ OpPop \/ OpSave \/ OpCut

SpecState == InitState /\ [][NextState]_vars

\* the explicit stack as stack_push and stack_pop see it: the pointer is
\* slot n_saves, created by the first stack_push, and the values are the
\* slots from n_saves + 1 up to the pointer
explicit_pointer(st) ==
    IF Len(st.saves) = st.explicit_sp
    THEN st.explicit_sp + 1
    ELSE get(st, st.explicit_sp)

explicit_stack(st) ==
    [k \in 1..(explicit_pointer(st) - st.explicit_sp - 1) |->
        get(st, st.explicit_sp + k)]

\* a save among at most MaxWrites writing operations
OpSaveCounted ==
    /\ at = "none"
    /\ shadow.n < MaxWrites
    /\ \E slot \in Slots, val \in OpsVals :
          /\ state' = save(state, slot, val)
          /\ model' = naive_save(model, slot, val)
          /\ multi' = ((lastOp # "pop" /\ multi) \/ already_saved(state, slot))
          /\ shadow' = shadow_save_counted(shadow, {slot})
    /\ lastOp' = "save"
    /\ folded' = (lastOp # "pop" /\ folded)
    /\ UNCHANGED runVars

\* BeginAtomic hands the height of the backtrack stack to stack_push
OpStackPush ==
    /\ at = "none"
    /\ shadow.n < MaxWrites
    /\ LET val == backtrack_count(state)
       IN /\ state' = stack_push(state, val)
          /\ shadow' =
                shadow_explicit(shadow,
                    {state.explicit_sp}
                      \cup {k \in {explicit_pointer(state)} : k < Len(state.saves)},
                    Append(shadow.exp, val))
    /\ lastOp' = "stack_push"
    /\ multi' = (lastOp # "pop" /\ multi)
    /\ folded' = (lastOp # "pop" /\ folded)
    /\ UNCHANGED <<model, runVars>>

\* EndAtomic pops what a BeginAtomic has pushed: the explicit stack is
\* not empty
OpStackPop ==
    /\ at = "none"
    /\ shadow.n < MaxWrites
    /\ shadow.exp # <<>>
    /\ state' = stack_pop(state).st
    /\ shadow' = shadow_explicit(shadow, {state.explicit_sp},
                                 SubSeq(shadow.exp, 1, Len(shadow.exp) - 1))
    /\ lastOp' = "stack_pop"
    /\ multi' = (lastOp # "pop" /\ multi)
    /\ folded' = (lastOp # "pop" /\ folded)
    /\ UNCHANGED <<model, runVars>>

NextOps ==
    \/ OpPush
    \/ OpPop
    \/ OpSaveCounted
    \/ OpCut
    \/ OpStackPush
    \/ OpStackPop

SpecOps == InitState /\ [][NextOps]_vars

\* ---------------------------------------------------------------- Insn

End == [op |-> "End"]
Lit(val) == [op |-> "Lit", val |-> val]
Split(x, y) == [op |-> "Split", x |-> x, y |-> y]
Jmp(target) == [op |-> "Jmp", target |-> target]
Save(slot) == [op |-> "Save", slot |-> slot]
FailNegativeLookAround == [op |-> "FailNegativeLookAround"]
Backref(slot) == [op |-> "Backref", slot |-> slot]
BeginAtomic == [op |-> "BeginAtomic"]
EndAtomic == [op |-> "EndAtomic"]
Save0(slot) == [op |-> "Save0", slot |-> slot]
RepeatGr(lo, hi, next, repeat) ==
    [op |-> "RepeatGr", lo |-> lo, hi |-> hi, next |-> next, repeat |-> repeat]
RepeatNg(lo, hi, next, repeat) ==
    [op |-> "RepeatNg", lo |-> lo, hi |-> hi, next |-> next, repeat |-> repeat]

RepeatEpsilonGr(lo, next, repeat, check) ==
    [op |-> "RepeatEpsilonGr", lo |-> lo, next |-> next, repeat |-> repeat,
     check |-> check]
RepeatEpsilonNg(lo, next, repeat, check) ==
    [op |-> "RepeatEpsilonNg", lo |-> lo, next |-> next, repeat |-> repeat,
     check |-> check]

\* Insn::Any (Any is an operator of the TLC module)
Insn_Any == [op |-> "Any"]
AnyNoNL == [op |-> "AnyNoNL"]
Restore(slot) == [op |-> "Restore", slot |-> slot]
GoBack(count) == [op |-> "GoBack", count |-> count]
DelegateSized(inner, size) ==
    [op |-> "DelegateSized", inner |-> inner, size |-> size]
\* inner1 is <<>> for None and <<re>> for Some(re)
Delegate(inner, inner1, start_group, end_group) ==
    [op |-> "Delegate", inner |-> inner, inner1 |-> inner1,
     start_group |-> start_group, end_group |-> end_group]

\* ------------------------------------------------- the delegate regexes
\* An anchored regex of the regex crate, as far as the programs below need
\* it: a sequence of atoms, each a literal or (?s:.), with at most one
\* capture group spanning the atoms group[1]..group[2], optional as a whole
\* if opt.
Regex(atoms, group, opt) == [atoms |-> atoms, group |-> group, opt |-> opt]
dot == [k |-> "any"]
literal(val) == [k |-> "lit", val |-> val]

\* byte length of the code point that starts with byte b
codepoint_len(b) ==
    IF b < 128 THEN 1 ELSE IF b < 224 THEN 2 ELSE IF b < 240 THEN 3 ELSE 4

RECURSIVE atoms_end(_, _, _, _)
\* the end of the match of atoms[k..] at offset i of str, -1 without a match
atoms_end(atoms, k, str, i) ==
    IF k > Len(atoms) THEN i
    ELSE IF atoms[k].k = "any"
         THEN IF i < Len(str)
              THEN atoms_end(atoms, k + 1, str, i + codepoint_len(str[i + 1]))
              ELSE -1
         ELSE LET end == i + Len(atoms[k].val)
              IN IF end <= Len(str) /\ SubSeq(str, i + 1, end) = atoms[k].val
                 THEN atoms_end(atoms, k + 1, str, end)
                 ELSE -1

\* Regex::captures(str): end is the end of the overall match (-1: no match),
\* groups[i] the span of group i, <<>> for a group that did not participate
captures(re, str) ==
    LET full == atoms_end(re.atoms, 1, str, 0)
        rest == IF re.group = <<>> THEN re.atoms
                ELSE SubSeq(re.atoms, 1, re.group[1] - 1)
                         \o SubSeq(re.atoms, re.group[2] + 1, Len(re.atoms))
        without == IF re.opt THEN atoms_end(rest, 1, str, 0) ELSE -1
    IN IF full # -1
       THEN [end |-> full,
             groups |-> IF re.group = <<>> THEN <<>>
                        ELSE << <<atoms_end(SubSeq(re.atoms, 1, re.group[1] - 1),
                                            1, str, 0),
                                  atoms_end(SubSeq(re.atoms, 1, re.group[2]),
                                            1, str, 0)>> >>]
       ELSE [end |-> without,
             groups |-> IF re.group = <<>> THEN <<>> ELSE << <<>> >>]

\* Regex::find(str).end()
find(re, str) == captures(re, str).end

\* Regex::is_match(str)
is_match(re, str) == find(re, str) # -1

Prog_new(body, n_saves) == [body |-> body, n_saves |-> n_saves]

\* ------------------------------------------------------------- programs
\* bytes: "a" = 97, "b" = 98, "c" = 99

\* ab|ac, the program of the module documentation
Prog_alt ==
    Prog_new(<<Split(1, 4), Lit(<<97>>), Lit(<<98>>), Jmp(6),
               Lit(<<97>>), Lit(<<99>>), End>>, 0)

\* (?>a+)ab
Prog_atomic ==
    Prog_new(<<BeginAtomic, Lit(<<97>>), Split(1, 3), EndAtomic,
               Lit(<<97, 98>>), End>>, 0)

\* a+ab, Prog_atomic without BeginAtomic / EndAtomic
Prog_plain ==
    Prog_new(<<Lit(<<97>>), Split(0, 2), Lit(<<97, 98>>), End>>, 0)

\* (?>(?>a+)b+)c
Prog_nested ==
    Prog_new(<<BeginAtomic, BeginAtomic, Lit(<<97>>), Split(2, 4), EndAtomic,
               Lit(<<98>>), Split(5, 7), EndAtomic, Lit(<<99>>), End>>, 0)

\* (?>(a)+)b|aa
Prog_atomic_cap ==
    Prog_new(<<Split(1, 9), BeginAtomic, Save(2), Lit(<<97>>), Save(3),
               Split(2, 6), EndAtomic, Lit(<<98>>), Jmp(10),
               Lit(<<97, 97>>), End>>, 4)

\* a(?!b)c
Prog_neg ==
    Prog_new(<<Lit(<<97>>), Split(2, 4), Lit(<<98>>), FailNegativeLookAround,
               Lit(<<99>>), End>>, 0)

\* a(?!(b)|bc)c: the body of the look-around pushes a frame of its own
Prog_neg_alt ==
    Prog_new(<<Lit(<<97>>), Split(2, 9), Split(3, 7), Save(2), Lit(<<98>>),
               Save(3), Jmp(8), Lit(<<98, 99>>), FailNegativeLookAround,
               Lit(<<99>>), End>>, 4)

\* a(?!(?>(b){1,2})c)b: the body of the look-around writes a capture, a
\* repeat counter (slot 4) and the explicit stack, whose slots it creates
Prog_neg_atomic ==
    Prog_new(<<Lit(<<97>>), Split(2, 12), BeginAtomic, Save0(4),
               RepeatGr(1, 2, 9, 4), Save(2), Lit(<<98>>), Save(3), Jmp(4),
               EndAtomic, Lit(<<99>>), FailNegativeLookAround,
               Lit(<<98>>), End>>, 5)

\* (?>a)(?!(?>(b){1,2})c)b: the slots of the explicit stack exist when the
\* look-around begins
Prog_atomic_neg ==
    Prog_new(<<BeginAtomic, Lit(<<97>>), EndAtomic, Split(4, 14), BeginAtomic,
               Save0(4), RepeatGr(1, 2, 11, 4), Save(2), Lit(<<98>>), Save(3),
               Jmp(6), EndAtomic, Lit(<<99>>), FailNegativeLookAround,
               Lit(<<98>>), End>>, 5)

\* (a+)\1
Prog_backref ==
    Prog_new(<<Save(2), Lit(<<97>>), Split(1, 3), Save(3), Backref(2), End>>, 4)

\* (a\1): the back-reference sits inside the group it refers to
Prog_backref_open ==
    Prog_new(<<Save(2), Lit(<<97>>), Backref(2), Save(3), End>>, 4)

\* (?:(a|b\1)c)+: the group is entered again while its end slot holds the
\* end of the iteration before
Prog_backref_loop ==
    Prog_new(<<Save(2), Split(2, 4), Lit(<<97>>), Jmp(6), Lit(<<98>>),
               Backref(2), Save(3), Lit(<<99>>), Split(0, 9), End>>, 4)

\* a program that pushes without ever failing or consuming input
Prog_loop == Prog_new(<<Split(0, 1), End>>, 0)

\* a{2,3}b
Prog_rep_gr ==
    Prog_new(<<Save0(0), RepeatGr(2, 3, 4, 0), Lit(<<97>>), Jmp(1),
               Lit(<<98>>), End>>, 1)

\* a{2,3}?b
Prog_rep_ng ==
    Prog_new(<<Save0(0), RepeatNg(2, 3, 4, 0), Lit(<<97>>), Jmp(1),
               Lit(<<98>>), End>>, 1)

\* a{0,2}a: the continuation matches what the body matches
Prog_opt_gr ==
    Prog_new(<<Save0(0), RepeatGr(0, 2, 4, 0), Lit(<<97>>), Jmp(1),
               Lit(<<97>>), End>>, 1)

\* a{0,2}?a
Prog_opt_ng ==
    Prog_new(<<Save0(0), RepeatNg(0, 2, 4, 0), Lit(<<97>>), Jmp(1),
               Lit(<<97>>), End>>, 1)

\* (a|)*b: the body of the loop can match the empty string
Prog_eps_gr ==
    Prog_new(<<Save0(0), RepeatEpsilonGr(0, 6, 0, 1), Split(3, 5), Lit(<<97>>),
               Jmp(5), Jmp(1), Lit(<<98>>), End>>, 2)

\* (a|)*?b
Prog_eps_ng ==
    Prog_new(<<Save0(0), RepeatEpsilonNg(0, 6, 0, 1), Split(3, 5), Lit(<<97>>),
               Jmp(5), Jmp(1), Lit(<<98>>), End>>, 2)

\* (a|)+b
Prog_eps1_gr ==
    Prog_new(<<Save0(0), RepeatEpsilonGr(1, 6, 0, 1), Split(3, 5), Lit(<<97>>),
               Jmp(5), Jmp(1), Lit(<<98>>), End>>, 2)

\* (a|)+?b
Prog_eps1_ng ==
    Prog_new(<<Save0(0), RepeatEpsilonNg(1, 6, 0, 1), Split(3, 5), Lit(<<97>>),
               Jmp(5), Jmp(1), Lit(<<98>>), End>>, 2)

\* (a|){2,}b
Prog_eps2_gr ==
    Prog_new(<<Save0(0), RepeatEpsilonGr(2, 6, 0, 1), Split(3, 5), Lit(<<97>>),
               Jmp(5), Jmp(1), Lit(<<98>>), End>>, 2)

\* (a|){2,}?b
Prog_eps2_ng ==
    Prog_new(<<Save0(0), RepeatEpsilonNg(2, 6, 0, 1), Split(3, 5), Lit(<<97>>),
               Jmp(5), Jmp(1), Lit(<<98>>), End>>, 2)

\* inputs of the loops with a possibly empty body
EpsInputs ==
    {<<>>, <<97>>, <<98>>, <<97, 98>>, <<97, 97>>, <<97, 97, 98>>}

\* bytes: "\n" = 10, "é" = 195 169, "€" = 226 130 172
e_acute == <<195, 169>>
euro == <<226, 130, 172>>

\* .(?s:.)
Prog_dots == Prog_new(<<AnyNoNL, Insn_Any, End>>, 0)

\* (?s:..)(?<=aé)b
Prog_lookbehind ==
    Prog_new(<<Insn_Any, Insn_Any, Save(0), GoBack(2), Lit(<<97>> \o e_acute),
               Restore(0), Lit(<<98>>), End>>, 1)

\* (?<=a)b
Prog_lookbehind_start ==
    Prog_new(<<Save(0), GoBack(1), Lit(<<97>>), Restore(0), Lit(<<98>>),
               End>>, 1)

\* (.)\1
Prog_backref_any ==
    Prog_new(<<Save(2), AnyNoNL, Save(3), Backref(2), End>>, 4)

\* two delegates: é(b)? with its group stored as group 1, then € handed
\* over with the code point before it
Prog_delegate ==
    Prog_new(<<Delegate(Regex(<<literal(e_acute), literal(<<98>>)>>, <<2, 2>>, TRUE),
                        <<>>, 1, 2),
               Delegate(Regex(<<literal(euro)>>, <<>>, FALSE),
                        <<Regex(<<dot, literal(euro)>>, <<>>, FALSE)>>, 0, 0),
               End>>, 4)

\* a delegate with inner1 that can run at index 0
Prog_delegate_start ==
    Prog_new(<<Delegate(Regex(<<literal(<<97>>)>>, <<>>, FALSE),
                        <<Regex(<<dot, literal(<<97>>)>>, <<>>, FALSE)>>, 0, 0),
               End>>, 0)

\* é as a delegate of one code point, then (?s:.)a as one of two
Prog_sized ==
    Prog_new(<<DelegateSized(Regex(<<literal(e_acute)>>, <<>>, FALSE), 1),
               DelegateSized(Regex(<<dot, literal(<<97>>)>>, <<>>, FALSE), 2),
               End>>, 0)

\* the programs run on inputs with multi-byte code points, from every start
\* index on a code-point boundary
Utf8Progs ==
    {"dots", "lookbehind", "lookbehind_start", "backref_any", "delegate",
     "delegate_start", "sized"}

\* every string over {a, b} of at most n bytes
Strings(n) == UNION {[1..k -> {97, 98}] : k \in 0..n}

Progs ==
    [alt |-> Prog_alt, atomic |-> Prog_atomic, plain |-> Prog_plain,
     nested |-> Prog_nested, atomic_cap |-> Prog_atomic_cap,
     neg |-> Prog_neg, neg_alt |-> Prog_neg_alt,
     neg_atomic |-> Prog_neg_atomic, atomic_neg |-> Prog_atomic_neg,
     backref |-> Prog_backref, backref_open |-> Prog_backref_open,
     backref_loop |-> Prog_backref_loop,
     loop |-> Prog_loop,
     rep_gr |-> Prog_rep_gr, rep_ng |-> Prog_rep_ng,
     opt_gr |-> Prog_opt_gr, opt_ng |-> Prog_opt_ng,
     eps_gr |-> Prog_eps_gr, eps_ng |-> Prog_eps_ng,
     eps1_gr |-> Prog_eps1_gr, eps1_ng |-> Prog_eps1_ng,
     eps2_gr |-> Prog_eps2_gr, eps2_ng |-> Prog_eps2_ng,
     dots |-> Prog_dots, lookbehind |-> Prog_lookbehind,
     lookbehind_start |-> Prog_lookbehind_start,
     backref_any |-> Prog_backref_any, delegate |-> Prog_delegate,
     delegate_start |-> Prog_delegate_start, sized |-> Prog_sized]

\* inputs of the look-arounds with a counted body
LookInputs ==
    {<<97, 98, 98, 99>>, <<97, 98, 99>>, <<97, 98, 98>>, <<97, 98>>, <<97, 99>>}

\* the inputs each program is run on, from pos = 0
Inputs ==
    [alt |-> {<<97, 99>>, <<97, 98>>, <<97, 97>>},
     atomic |-> {<<97, 97, 97, 98>>, <<97, 98>>},
     plain |-> {<<97, 97, 97, 98>>, <<97, 98>>},
     nested |-> {<<97, 97, 98, 99>>, <<97, 98, 98>>},
     atomic_cap |-> {<<97, 97>>, <<97, 97, 98>>, <<97, 98>>},
     neg |-> {<<97, 99>>, <<97, 98, 99>>},
     neg_alt |-> {<<97, 99>>, <<97, 98, 99>>, <<97, 98>>},
     neg_atomic |-> LookInputs, atomic_neg |-> LookInputs,
     backref |-> {<<97, 97, 97, 97>>, <<97, 97, 97, 98>>, <<97, 97>>},
     backref_open |-> {<<97, 97>>, <<97>>},
     backref_loop |-> {<<97, 99, 98, 99>>, <<97, 99, 97, 99>>, <<97, 99>>},
     loop |-> {<<>>, <<97>>},
     rep_gr |-> Strings(MaxLen), rep_ng |-> Strings(MaxLen),
     opt_gr |-> Strings(MaxLen), opt_ng |-> Strings(MaxLen),
     eps_gr |-> EpsInputs, eps_ng |-> EpsInputs,
     eps1_gr |-> EpsInputs, eps1_ng |-> EpsInputs,
     eps2_gr |-> EpsInputs, eps2_ng |-> EpsInputs,
     dots |-> {e_acute \o euro, <<97, 10>>, <<10, 97>>, euro},
     lookbehind |-> {<<97>> \o e_acute \o <<98>>, euro \o e_acute \o <<98>>,
                     e_acute \o <<97>>},
     lookbehind_start |-> {<<97, 98>>, e_acute \o <<98>>},
     backref_any |-> {e_acute \o e_acute, e_acute \o <<97, 97>>,
                      e_acute \o euro},
     delegate |-> {e_acute \o <<98>> \o euro, e_acute \o euro,
                   e_acute \o <<98, 97>>},
     delegate_start |-> {<<97, 97>>, e_acute \o <<97>>},
     sized |-> {e_acute \o euro \o <<97>>, e_acute \o <<98, 97>>,
                e_acute \o <<98>>, <<97>>}]

\* ------------------------------------------------------------------- run

P == Progs[prog]
Insn == P.body[pc + 1]

\* usize arithmetic of a release build: wrapping
wrapping_add(a, b) == (a + b) % (2 ^ WordBits)
wrapping_sub(a, b) == (a - b + 2 ^ WordBits) % (2 ^ WordBits)

\* s[a..b] of a &str is defined when a <= b <= s.len() and both ends are
\* code-point boundaries
is_char_boundary(str, i) ==
    \/ i = 0
    \/ i = Len(str)
    \/ (i < Len(str) /\ str[i + 1] \notin 128..191)

slice_ok(str, a, b) ==
    a <= b /\ b <= Len(str) /\ is_char_boundary(str, a) /\ is_char_boundary(str, b)

\* the reference keeps one entry more than the program has slots: the index
\* at which the latest iteration of a RepeatEpsilon loop began, copied into
\* the frames and brought back by pops like the slots
iter_slot == P.n_saves

InitRun ==
    /\ prog \in DOMAIN Progs
    /\ s \in Inputs[prog]
    /\ state = State_new(P.n_saves, RunMaxStack)
    /\ model = Naive_new(P.n_saves + 1)
    /\ pc = 0
    /\ ix \in (IF prog \in Utf8Progs
                THEN {i \in 0..Len(s) : is_char_boundary(s, i)}
                ELSE {0})
    /\ at = "dispatch"
    /\ result = "running"
    /\ depthAt = [p \in 1..Len(P.body) |-> -1]
    /\ slotsAt = [p \in 1..Len(P.body) |-> <<>>]
    /\ npush = 0
    /\ npop = 0
    /\ prev = "none"
    /\ lastOp = "new" /\ multi = FALSE /\ folded = FALSE
    /\ shadow = Shadow_new

\* every dispatch: the instruction at pc is fetched
Dispatch(op) ==
    /\ at = "dispatch"
    /\ Insn.op = op
    /\ depthAt' = [depthAt EXCEPT ![pc + 1] = Len(state.stack)]
    /\ slotsAt' = [slotsAt EXCEPT ![pc + 1] = state.saves]
    /\ UNCHANGED <<prog, s, prev, harnessVars>>

\* break 'fail
Fail == at' = "fail" /\ UNCHANGED <<pc, ix, result>>

\* break 'fail after the arm has moved ix
FailAt(new_ix) == at' = "fail" /\ ix' = new_ix /\ UNCHANGED <<pc, result>>

\* the arm completes and falls to `pc += 1`
Step(new_ix) ==
    /\ at' = "dispatch" /\ pc' = pc + 1 /\ ix' = new_ix /\ UNCHANGED result

\* the arm sets pc and continues
Continue(new_pc) ==
    /\ at' = "dispatch" /\ pc' = new_pc /\ UNCHANGED <<ix, result>>

Return(val) == at' = "returned" /\ result' = val /\ UNCHANGED <<pc, ix>>

Panic == at' = "panicked" /\ UNCHANGED <<pc, ix, result>>

\* a count of calls, k more of them made
counted(n, k) == IF n + k < MaxCount THEN n + k ELSE MaxCount

\* the push with its error dropped instead of propagated by `?`
PushThen_swallow(p, rest) ==
    LET r == push(state, p, ix)
    IN /\ state' = r.st
       /\ model' = IF r.ok THEN naive_push(model, p, ix) ELSE model
       /\ npush' = IF r.ok THEN counted(npush, 1) ELSE npush
       /\ npop' = npop
       /\ rest

\* state.push(p, ix)? followed by the rest of the arm
PushThen(p, rest) ==
    LET r == push(state, p, ix)
    IN IF r.ok
       THEN /\ state' = r.st
            /\ model' = naive_push(model, p, ix)
            /\ npush' = counted(npush, 1)
            /\ npop' = npop
            /\ rest
       ELSE /\ Return("StackOverflow")
            /\ UNCHANGED <<state, model, npush, npop>>

\* a code point taken for a single byte
codepoint_len_at_one(str, i) == 1

codepoint_len_at(str, i) == codepoint_len(str[i + 1])

RECURSIVE prev_codepoint_ix(_, _)
\* the index of the code point that ends at i: the bytes 128..191 are
\* continuation bytes
prev_codepoint_ix(str, i) ==
    IF i - 1 = 0 \/ str[i] \notin 128..191
    THEN i - 1
    ELSE prev_codepoint_ix(str, i - 1)

RECURSIVE go_back(_, _, _)
\* the loop of GoBack: [ix, ok], ok = FALSE if ix = 0 was met
go_back(str, i, count) ==
    IF count = 0 THEN [ix |-> i, ok |-> TRUE]
    ELSE IF i = 0 THEN [ix |-> i, ok |-> FALSE]
    ELSE go_back(str, prev_codepoint_ix(str, i), count - 1)

RECURSIVE advance(_, _, _)
\* the loop of DelegateSized: ok = FALSE if the index ran off the bytes
advance(str, i, size) ==
    IF size = 0 THEN [ix |-> i, ok |-> TRUE]
    ELSE IF i >= Len(str) THEN [ix |-> i, ok |-> FALSE]
    ELSE advance(str, i + codepoint_len_at(str, i), size - 1)

RECURSIVE delegate_writes(_, _, _, _, _)
\* the saves of Delegate for the groups i..(n_groups - 1), as <<slot, value>>
delegate_writes(caps, ix0, start_group, n_groups, i) ==
    IF i >= n_groups THEN <<>>
    ELSE LET slot == (start_group + i) * 2
             m == IF i + 1 <= Len(caps.groups) THEN caps.groups[i + 1] ELSE <<>>
         IN (IF m # <<>>
             THEN <<<<slot, ix0 + m[1]>>, <<slot + 1, ix0 + m[2]>>>>
             ELSE <<<<slot, USIZE_MAX>>, <<slot + 1, USIZE_MAX>>>>)
            \o delegate_writes(caps, ix0, start_group, n_groups, i + 1)

RECURSIVE save_all(_, _)
save_all(st, writes) ==
    IF writes = <<>> THEN st
    ELSE save_all(save(st, writes[1][1], writes[1][2]), Tail(writes))

RECURSIVE naive_save_all(_, _)
naive_save_all(m, writes) ==
    IF writes = <<>> THEN m
    ELSE naive_save_all(naive_save(m, writes[1][1], writes[1][2]), Tail(writes))

\* a save followed by state.push(p, ix)? and the rest of the arm: st and m
\* are the State and the reference after the save
PushOn(st, m, p, rest) ==
    LET r == push(st, p, ix)
    IN IF r.ok
       THEN /\ state' = r.st
            /\ model' = naive_push(m, p, ix)
            /\ npush' = counted(npush, 1)
            /\ npop' = npop
            /\ rest
       ELSE /\ Return("StackOverflow")
            /\ state' = st
            /\ model' = m
            /\ UNCHANGED <<npush, npop>>

Run_End ==
    /\ Dispatch("End")
    /\ Return("Some")
    /\ UNCHANGED <<state, model, npush, npop>>

Run_Lit ==
    /\ Dispatch("Lit")
    /\ LET end == ix + Len(Insn.val)
       IN IF end > Len(s) \/ SubSeq(s, ix + 1, end) # Insn.val
          THEN Fail
          ELSE Step(end)
    /\ UNCHANGED <<state, model, npush, npop>>

\* Split trying its second thread first
Run_Split_second_first ==
    /\ Dispatch("Split")
    /\ PushThen(Insn.x, Continue(Insn.y))

Run_Split ==
    /\ Dispatch("Split")
    /\ PushThen(Insn.y, Continue(Insn.x))

Run_Jmp ==
    /\ Dispatch("Jmp")
    /\ Continue(Insn.target)
    /\ UNCHANGED <<state, model, npush, npop>>

Run_Save ==
    /\ Dispatch("Save")
    /\ state' = save(state, Insn.slot, ix)
    /\ model' = naive_save(model, Insn.slot, ix)
    /\ Step(ix)
    /\ UNCHANGED <<npush, npop>>

Run_Any ==
    /\ Dispatch("Any")
    /\ IF ix < Len(s)
       THEN Step(ix + codepoint_len_at(s, ix))
       ELSE Fail
    /\ UNCHANGED <<state, model, npush, npop>>

Run_AnyNoNL ==
    /\ Dispatch("AnyNoNL")
    /\ IF ix < Len(s) /\ s[ix + 1] # 10
       THEN Step(ix + codepoint_len_at(s, ix))
       ELSE Fail
    /\ UNCHANGED <<state, model, npush, npop>>

Run_Restore ==
    /\ Dispatch("Restore")
    /\ Step(get(state, Insn.slot))
    /\ UNCHANGED <<state, model, npush, npop>>

Run_GoBack ==
    /\ Dispatch("GoBack")
    /\ LET r == go_back(s, ix, Insn.count)
       IN IF r.ok THEN Step(r.ix) ELSE FailAt(r.ix)
    /\ UNCHANGED <<state, model, npush, npop>>

\* &s[ix..] panics off a code-point boundary, and so does the byte read of
\* codepoint_len_at past the end
Run_DelegateSized ==
    /\ Dispatch("DelegateSized")
    /\ IF ~slice_ok(s, ix, Len(s))
       THEN Panic
       ELSE IF is_match(Insn.inner, SubSeq(s, ix + 1, Len(s)))
            THEN LET r == advance(s, ix, Insn.size)
                 IN IF r.ok THEN Step(r.ix) ELSE Panic
            ELSE Fail
    /\ UNCHANGED <<state, model, npush, npop>>

Run_Delegate ==
    /\ Dispatch("Delegate")
    /\ LET back == Insn.inner1 # <<>> /\ ix > 0
           ix0 == IF back THEN prev_codepoint_ix(s, ix) ELSE ix
           re == IF back THEN Insn.inner1[1] ELSE Insn.inner
           caps == captures(re, SubSeq(s, ix0 + 1, Len(s)))
           writes == delegate_writes(caps, ix0, Insn.start_group,
                                     Insn.end_group - Insn.start_group, 0)
       IN IF ~slice_ok(s, ix0, Len(s))
          THEN Panic /\ UNCHANGED <<state, model>>
          ELSE IF Insn.start_group = Insn.end_group
               THEN /\ IF find(re, SubSeq(s, ix0 + 1, Len(s))) # -1
                       THEN Step(ix0 + find(re, SubSeq(s, ix0 + 1, Len(s))))
                       ELSE FailAt(ix0)
                    /\ UNCHANGED <<state, model>>
               ELSE IF caps.end # -1
                    THEN /\ state' = save_all(state, writes)
                         /\ model' = naive_save_all(model, writes)
                         /\ Step(ix0 + caps.end)
                    ELSE FailAt(ix0) /\ UNCHANGED <<state, model>>
    /\ UNCHANGED <<npush, npop>>

Run_Save0 ==
    /\ Dispatch("Save0")
    /\ state' = save(state, Insn.slot, 0)
    /\ model' = naive_save(model, Insn.slot, 0)
    /\ Step(ix)
    /\ UNCHANGED <<npush, npop>>

\* a counted loop that never takes its exit at hi
repeat_done_never(repcount, hi) == FALSE

\* `if repcount == hi` of RepeatGr and RepeatNg
repeat_done(repcount, hi) == repcount = hi

\* RepeatGr leaving the loop first and keeping the body for backtracking
Run_RepeatGr_lazy ==
    /\ Dispatch("RepeatGr")
    /\ LET repcount == get(state, Insn.repeat)
           st1 == save(state, Insn.repeat, wrapping_add(repcount, 1))
           m1 == naive_save(model, Insn.repeat, wrapping_add(repcount, 1))
       IN IF repeat_done(repcount, Insn.hi)
          THEN Continue(Insn.next) /\ UNCHANGED <<state, model, npush, npop>>
          ELSE IF repcount >= Insn.lo
               THEN PushOn(st1, m1, pc + 1, Continue(Insn.next))
               ELSE /\ state' = st1
                    /\ model' = m1
                    /\ Step(ix)
                    /\ UNCHANGED <<npush, npop>>

\* repcount + 1 overflows only when the counter slot holds usize::MAX, that
\* is when no Save0 has reset it: a panic with overflow checks, 0 without
Run_RepeatGr ==
    /\ Dispatch("RepeatGr")
    /\ LET repcount == get(state, Insn.repeat)
           st1 == save(state, Insn.repeat, wrapping_add(repcount, 1))
           m1 == naive_save(model, Insn.repeat, wrapping_add(repcount, 1))
       IN IF repeat_done(repcount, Insn.hi)
          THEN Continue(Insn.next) /\ UNCHANGED <<state, model, npush, npop>>
          ELSE \/ /\ repcount = USIZE_MAX
                  /\ Panic
                  /\ UNCHANGED <<state, model, npush, npop>>
               \/ IF repcount >= Insn.lo
                  THEN PushOn(st1, m1, Insn.next, Step(ix))
                  ELSE /\ state' = st1
                       /\ model' = m1
                       /\ Step(ix)
                       /\ UNCHANGED <<npush, npop>>

\* RepeatNg going on at `next` without leaving a frame for the body
Run_RepeatNg_no_frame ==
    /\ Dispatch("RepeatNg")
    /\ LET repcount == get(state, Insn.repeat)
           st1 == save(state, Insn.repeat, wrapping_add(repcount, 1))
           m1 == naive_save(model, Insn.repeat, wrapping_add(repcount, 1))
       IN /\ state' = (IF repeat_done(repcount, Insn.hi) THEN state ELSE st1)
          /\ model' = (IF repeat_done(repcount, Insn.hi) THEN model ELSE m1)
          /\ IF repeat_done(repcount, Insn.hi) \/ repcount >= Insn.lo
             THEN Continue(Insn.next)
             ELSE Step(ix)
          /\ UNCHANGED <<npush, npop>>

Run_RepeatNg ==
    /\ Dispatch("RepeatNg")
    /\ LET repcount == get(state, Insn.repeat)
           st1 == save(state, Insn.repeat, wrapping_add(repcount, 1))
           m1 == naive_save(model, Insn.repeat, wrapping_add(repcount, 1))
       IN IF repeat_done(repcount, Insn.hi)
          THEN Continue(Insn.next) /\ UNCHANGED <<state, model, npush, npop>>
          ELSE \/ /\ repcount = USIZE_MAX
                  /\ Panic
                  /\ UNCHANGED <<state, model, npush, npop>>
               \/ IF repcount >= Insn.lo
                  THEN PushOn(st1, m1, pc + 1, Continue(Insn.next))
                  ELSE /\ state' = st1
                       /\ model' = m1
                       /\ Step(ix)
                       /\ UNCHANGED <<npush, npop>>

\* a loop that never finds its iteration empty
epsilon_stuck_never(repcount, lo, check) == FALSE

\* `if repcount > lo && state.get(check) == ix`
epsilon_stuck(repcount, lo, check) == repcount > lo /\ get(state, check) = ix

\* RepeatEpsilonGr storing ix into the check slot whatever the counter is
Run_RepeatEpsilonGr_always_check ==
    /\ Dispatch("RepeatEpsilonGr")
    /\ LET repcount == get(state, Insn.repeat)
           st1 == save(save(state, Insn.repeat, wrapping_add(repcount, 1)),
                       Insn.check, ix)
           m1 == naive_save(naive_save(naive_save(model, Insn.repeat,
                                                  wrapping_add(repcount, 1)),
                                       iter_slot, ix),
                            Insn.check, ix)
       IN IF epsilon_stuck(repcount, Insn.lo, Insn.check)
          THEN Fail /\ UNCHANGED <<state, model, npush, npop>>
          ELSE IF repcount >= Insn.lo
               THEN PushOn(st1, m1, Insn.next, Step(ix))
               ELSE /\ state' = st1
                    /\ model' = m1
                    /\ Step(ix)
                    /\ UNCHANGED <<npush, npop>>

Run_RepeatEpsilonGr ==
    /\ Dispatch("RepeatEpsilonGr")
    /\ LET repcount == get(state, Insn.repeat)
           st1 == save(state, Insn.repeat, wrapping_add(repcount, 1))
           m1 == naive_save(naive_save(model, Insn.repeat,
                                       wrapping_add(repcount, 1)),
                            iter_slot, ix)
       IN IF epsilon_stuck(repcount, Insn.lo, Insn.check)
          THEN Fail /\ UNCHANGED <<state, model, npush, npop>>
          ELSE \/ /\ repcount = USIZE_MAX
                  /\ Panic
                  /\ UNCHANGED <<state, model, npush, npop>>
               \/ IF repcount >= Insn.lo
                  THEN PushOn(save(st1, Insn.check, ix),
                              naive_save(m1, Insn.check, ix),
                              Insn.next, Step(ix))
                  ELSE /\ state' = st1
                       /\ model' = m1
                       /\ Step(ix)
                       /\ UNCHANGED <<npush, npop>>

\* RepeatEpsilonNg that never stores ix into the check slot
Run_RepeatEpsilonNg_no_check ==
    /\ Dispatch("RepeatEpsilonNg")
    /\ LET repcount == get(state, Insn.repeat)
           st1 == save(state, Insn.repeat, wrapping_add(repcount, 1))
           m1 == naive_save(naive_save(model, Insn.repeat,
                                       wrapping_add(repcount, 1)),
                            iter_slot, ix)
       IN IF epsilon_stuck(repcount, Insn.lo, Insn.check)
          THEN Fail /\ UNCHANGED <<state, model, npush, npop>>
          ELSE IF repcount >= Insn.lo
               THEN PushOn(st1, m1, pc + 1, Continue(Insn.next))
               ELSE /\ state' = st1
                    /\ model' = m1
                    /\ Step(ix)
                    /\ UNCHANGED <<npush, npop>>

Run_RepeatEpsilonNg ==
    /\ Dispatch("RepeatEpsilonNg")
    /\ LET repcount == get(state, Insn.repeat)
           st1 == save(state, Insn.repeat, wrapping_add(repcount, 1))
           m1 == naive_save(naive_save(model, Insn.repeat,
                                       wrapping_add(repcount, 1)),
                            iter_slot, ix)
       IN IF epsilon_stuck(repcount, Insn.lo, Insn.check)
          THEN Fail /\ UNCHANGED <<state, model, npush, npop>>
          ELSE \/ /\ repcount = USIZE_MAX
                  /\ Panic
                  /\ UNCHANGED <<state, model, npush, npop>>
               \/ IF repcount >= Insn.lo
                  THEN PushOn(save(st1, Insn.check, ix),
                              naive_save(m1, Insn.check, ix),
                              pc + 1, Continue(Insn.next))
                  ELSE /\ state' = st1
                       /\ model' = m1
                       /\ Step(ix)
                       /\ UNCHANGED <<npush, npop>>

\* FailNegativeLookAround popping a single frame
fnla_unwind_once(st, after, n) == [st |-> pop(st).st, n |-> n + 1]

RECURSIVE fnla_unwind(_, _, _)
\* the loop of FailNegativeLookAround: pop until the popped pc is after;
\* n counts the pops
fnla_unwind(st, after, n) ==
    LET r == pop(st)
    IN IF r.pc = after
       THEN [st |-> r.st, n |-> n + 1]
       ELSE fnla_unwind(r.st, after, n + 1)

RECURSIVE naive_pops(_, _)
naive_pops(m, n) == IF n = 0 THEN m ELSE naive_pops(naive_pop(m), n - 1)

Run_FailNegativeLookAround ==
    /\ Dispatch("FailNegativeLookAround")
    /\ LET r == fnla_unwind(state, pc + 1, 0)
       IN /\ state' = r.st
          /\ model' = naive_pops(model, r.n)
          /\ npop' = counted(npop, r.n)
    /\ Fail
    /\ UNCHANGED npush

\* Backref comparing the lengths only
Backref_outcomes_len_only(lo, hi) ==
    LET diff == wrapping_sub(hi, lo)
        ix_end == wrapping_add(ix, diff)
    IN [kinds |-> IF ix_end > Len(s) THEN {"fail"} ELSE {"ok"},
        ix_end |-> ix_end]

\* the outcomes of the Backref arm: lo is set.  An overflow of hi - lo or of
\* ix + (hi - lo) panics in a build with overflow checks and wraps in one
\* without; a slice out of range panics in both.
Backref_outcomes(lo, hi) ==
    LET diff == wrapping_sub(hi, lo)
        ix_end == wrapping_add(ix, diff)
        overflow == hi < lo \/ ix + diff > USIZE_MAX
        wrapped ==
            IF ix_end > Len(s) THEN "fail"
            ELSE IF ~slice_ok(s, ix, ix_end) \/ ~slice_ok(s, lo, hi) THEN "panic"
            ELSE IF SubSeq(s, ix + 1, ix_end) # SubSeq(s, lo + 1, hi) THEN "fail"
            ELSE "ok"
    IN [kinds |-> IF overflow THEN {"panic", wrapped} ELSE {wrapped},
        ix_end |-> ix_end]

Run_Backref ==
    /\ Dispatch("Backref")
    /\ LET lo == get(state, Insn.slot)
           hi == get(state, Insn.slot + 1)
           o == Backref_outcomes(lo, hi)
       IN IF lo = USIZE_MAX
          THEN Fail
          ELSE \E kind \in o.kinds :
                 CASE kind = "ok" -> Step(o.ix_end)
                   [] kind = "fail" -> Fail
                   [] kind = "panic" -> Panic
    /\ UNCHANGED <<state, model, npush, npop>>

Run_BeginAtomic ==
    /\ Dispatch("BeginAtomic")
    /\ state' = stack_push(state, backtrack_count(state))
    /\ Step(ix)
    /\ UNCHANGED <<model, npush, npop>>

Run_EndAtomic ==
    /\ Dispatch("EndAtomic")
    /\ LET r == stack_pop(state)
       IN /\ state' = backtrack_cut(r.st, r.result)
          /\ model' = naive_cut(model, r.result)
    /\ Step(ix)
    /\ UNCHANGED <<npush, npop>>

\* "break 'fail" goes here
FailHandler ==
    /\ at = "fail"
    /\ IF state.stack = <<>>
       THEN /\ Return("None")
            /\ UNCHANGED <<state, model, npop>>
       ELSE LET r == pop(state)
            IN /\ state' = r.st
               /\ model' = naive_pop(model)
               /\ npop' = counted(npop, 1)
               /\ pc' = r.pc
               /\ ix' = r.ix
               /\ at' = "dispatch"
               /\ UNCHANGED result
    /\ UNCHANGED <<prog, s, prev, depthAt, slotsAt, npush, harnessVars>>

Next ==
    \/ Run_End
    \/ Run_Lit
    \/ Run_Split
    \/ Run_Jmp
    \/ Run_Any
    \/ Run_AnyNoNL
    \/ Run_Save
    \/ Run_Save0
    \/ Run_Restore
    \/ Run_GoBack
    \/ Run_DelegateSized
    \/ Run_Delegate
    \/ Run_RepeatGr
    \/ Run_RepeatNg
    \/ Run_RepeatEpsilonGr
    \/ Run_RepeatEpsilonNg
    \/ Run_FailNegativeLookAround
    \/ Run_Backref
    \/ Run_BeginAtomic
    \/ Run_EndAtomic
    \/ FailHandler

Spec == InitRun /\ [][Next]_vars

\* the non-greedy counterpart of a program
ng_variant == [rep_gr |-> "rep_ng", opt_gr |-> "opt_ng"]

\* run is called once more, on the same input, with the non-greedy
\* counterpart of the program that has returned
RunAgain ==
    /\ at = "returned"
    /\ prev = "none"
    /\ prog \in DOMAIN ng_variant
    /\ prog' = ng_variant[prog]
    /\ prev' = result
    /\ state' = State_new(Progs[prog'].n_saves, RunMaxStack)
    /\ model' = Naive_new(Progs[prog'].n_saves + 1)
    /\ pc' = 0
    /\ ix' = 0
    /\ at' = "dispatch"
    /\ result' = "running"
    /\ depthAt' = [p \in 1..Len(Progs[prog'].body) |-> -1]
    /\ slotsAt' = [p \in 1..Len(Progs[prog'].body) |-> <<>>]
    /\ npush' = 0
    /\ npop' = 0
    /\ UNCHANGED <<s, harnessVars>>

NextPair == Next \/ RunAgain

SpecPair == InitRun /\ [][NextPair]_vars

\* run is a sequential loop: it takes its next step as long as it has one
FairSpec == Spec /\ WF_vars(Next)

\* ============================================================== claims

\* ----------------------------------------------------------------- C1
\* C1: whatever sequence of push, pop and save has been applied to the
\* engine State and to the naive full-copy model, get(slot) of the engine
\* equals the slot value of the naive model, for every slot, after every step.
C1_GetAgreesWithNaive ==
    \A slot \in Slots : get(state, slot) = model.saves[slot + 1]

\* a pop has just rewound a frame in which the slot was written, one frame
\* is left, and the slot holds a value saved before the popped frame
C1_Witness ==
    /\ lastOp = "pop"
    /\ Len(state.stack) = 1
    /\ get(state, 0) = 20
    /\ state.oldsave = <<<<0, USIZE_MAX>>, <<0, 10>>>>

\* ----------------------------------------------------------------- C2
\* the slot vector the engine would be left with by a pop
popped_saves(st) == pop(st).st.saves

C6_PushBounded ==
    /\ [](Len(state.stack) <= state.max_stack)
    /\ [][lastOp' \in {"push", "push_err"} =>
            /\ (lastOp' = "push") <=> (Len(state.stack) < state.max_stack)
            /\ lastOp' = "push" => Len(state'.stack) = Len(state.stack) + 1
            /\ lastOp' = "push_err" => state' = state]_vars

\* a push was refused on a full stack that carries undo entries
C6_Witness ==
    /\ lastOp = "push_err"
    /\ Len(state.stack) = state.max_stack
    /\ state.nsave > 0

\* ----------------------------------------------------------------- C8
\* the undo entries written after the j-th push and before the next one
\* (j = 0: before the first push), as 1-based positions of oldsave
undo_range(st, j) ==
    LET size(k) == IF k = Len(st.stack) THEN st.nsave ELSE st.stack[k + 1][3]
        start == Len(st.oldsave) - st.nsave - sum_nsave(st.stack, j)
    IN (start + 1)..(start + size(j))

\* C8: the undo entry of a slot written after a push holds the value the
\* slot had at that push, however often it was written since; a slot that
\* differs from that value has an entry, so that pop restores exactly the
\* value at the push.  With 10 saved, a push, 20 saved, a push and 30 saved,
\* the pops yield 20 and then 10.
C8_UndoFirstWrite ==
    /\ \A j \in 1..Len(state.stack) : \A k \in undo_range(state, j) :
          state.oldsave[k][2] = model.stack[j][3][state.oldsave[k][1] + 1]
    /\ \A k \in undo_range(state, 0) : state.oldsave[k][2] = USIZE_MAX
    /\ state.stack # <<>> =>
          \A slot \in Slots :
             popped_saves(state)[slot + 1] = model.stack[Len(model.stack)][3][slot + 1]
    /\ (/\ Len(state.stack) = 2
        /\ state.oldsave = <<<<0, USIZE_MAX>>, <<0, 10>>, <<0, 20>>>>
        /\ get(state, 0) = 30)
          => /\ popped_saves(state)[1] = 20
             /\ popped_saves(pop(state).st)[1] = 10

\* a frame in which the slot was saved more than once has just been popped
C8_Witness ==
    /\ lastOp = "pop"
    /\ multi
    /\ state.oldsave = <<<<0, USIZE_MAX>>>>
    /\ get(state, 0) = 10

\* ----------------------------------------------------------------- C3
aaab == <<97, 97, 97, 98>>

Returned == at = "returned"

RECURSIVE match_begin(_, _, _)
\* the pc of the BeginAtomic that pairs with an EndAtomic, found by
\* scanning the program text backwards from p with the nesting depth
match_begin(body, p, depth) ==
    IF body[p + 1].op = "BeginAtomic"
    THEN IF depth = 0 THEN p ELSE match_begin(body, p - 1, depth - 1)
    ELSE IF body[p + 1].op = "EndAtomic"
         THEN match_begin(body, p - 1, depth + 1)
         ELSE match_begin(body, p - 1, depth)

\* C3: when an EndAtomic completes, the backtrack stack is as high as it was
\* when the matching BeginAtomic was dispatched; (?>a+)ab does not match
\* "aaab" from index 0, and a+ab does.
C3_EndAtomicCuts ==
    /\ [][(at = "dispatch" /\ Insn.op = "EndAtomic") =>
            /\ at' = "dispatch"
            /\ stack_pop(state).result = depthAt[match_begin(P.body, pc - 1, 0) + 1]
            /\ Len(state'.stack) = depthAt[match_begin(P.body, pc - 1, 0) + 1]]_vars
    /\ []((Returned /\ s = aaab) =>
            /\ prog = "atomic" => result = "None"
            /\ prog = "plain" => result = "Some")

\* (?>a+)ab has run on "aaab": the cut discarded the frames of a+, and the
\* failure of the trailing ab found the stack empty
C3_Witness ==
    /\ Returned /\ prog = "atomic" /\ s = aaab
    /\ result = "None"
    /\ npush = 3 /\ npop = 1
    /\ depthAt[4] = 2

\* ----------------------------------------------------------------- C4
semantic_slots == 0..(P.n_saves - 1)

\* C4: Split(x, y) pushes the frame (y, ix) and goes on at x with the same
\* ix; the failure handler resumes the frame on top of the stack, with the
\* pc and ix pushed and the slot values that were current at that push; the
\* documented program of ab|ac on "ac" ends in a match at index 2 after one
\* push and one pop, and on "ab", where the first thread reaches End, the
\* frame is never popped.
C4_SplitFirstThenBacktrack ==
    /\ [][(at = "dispatch" /\ Insn.op = "Split" /\ at' = "dispatch") =>
            /\ state'.stack = Append(state.stack, <<Insn.y, ix, state.nsave>>)
            /\ state'.saves = state.saves
            /\ pc' = Insn.x
            /\ ix' = ix]_vars
    /\ [][(at = "fail" /\ at' = "dispatch") =>
            LET f == model.stack[Len(model.stack)]
                top == state.stack[Len(state.stack)]
            IN /\ pc' = f[1] /\ pc' = top[1]
               /\ ix' = f[2] /\ ix' = top[2]
               /\ \A slot \in semantic_slots : get(state', slot) = f[3][slot + 1]
               /\ Len(state'.stack) = Len(state.stack) - 1]_vars
    /\ []((Returned /\ prog = "alt" /\ s = <<97, 99>>) =>
            result = "Some" /\ ix = 2 /\ npush = 1 /\ npop = 1)
    /\ []((Returned /\ prog = "alt" /\ s = <<97, 98>>) =>
            result = "Some" /\ ix = 2 /\ npush = 1 /\ npop = 0)

\* ab|ac has matched "ac": the frame of the Split was pushed and popped once
C4_Witness ==
    /\ Returned /\ prog = "alt" /\ s = <<97, 99>>
    /\ result = "Some" /\ ix = 2 /\ npush = 1 /\ npop = 1
    /\ state.stack = <<>>

\* ----------------------------------------------------------------- C5
\* C5: a run ends in Some, None or StackOverflow and in nothing else: Some
\* when End is dispatched, None when an instruction has failed and the stack
\* is empty, StackOverflow when a push finds max_stack frames; a failure
\* with a non-empty stack pops the top frame and resumes at its pc and ix.
C5_ThreeOutcomes ==
    /\ [][(at \in {"dispatch", "fail"} /\ at' \notin {"dispatch", "fail"}) =>
            \/ /\ at' = "returned" /\ result' = "Some"
               /\ at = "dispatch" /\ Insn.op = "End"
            \/ /\ at' = "returned" /\ result' = "None"
               /\ at = "fail" /\ state.stack = <<>>
            \/ /\ at' = "returned" /\ result' = "StackOverflow"
               /\ at = "dispatch"
               /\ Insn.op \in {"Split", "RepeatGr", "RepeatNg",
                               "RepeatEpsilonGr", "RepeatEpsilonNg"}
               /\ Len(state.stack) = state.max_stack]_vars
    /\ [][(at = "fail" /\ state.stack # <<>>) =>
            /\ at' = "dispatch"
            /\ pc' = state.stack[Len(state.stack)][1]
            /\ ix' = state.stack[Len(state.stack)][2]]_vars

\* ----------------------------------------------------------------- C7
\* C7: the run of a program that only pushes ends: after max_stack pushes
\* the next push fails and run returns StackOverflow.
C7_OverflowTerminates ==
    (prog = "loop") ~>
        (Returned /\ result = "StackOverflow" /\ npush = RunMaxStack)

\* the pushing loop has been stopped by the full stack
C7_Witness ==
    /\ Returned /\ prog = "loop"
    /\ result = "StackOverflow"
    /\ npush = RunMaxStack
    /\ Len(state.stack) = RunMaxStack

\* ----------------------------------------------------------------- C9
\* the pc of the Split that introduces the look-around ended at pc f
split_of(body, f) ==
    CHOOSE p \in 0..(Len(body) - 1) :
        body[p + 1].op = "Split" /\ body[p + 1].y = f + 1

\* C9: when FailNegativeLookAround has run, the backtrack stack is as high
\* as it was when the Split of the look-around was dispatched, and the
\* instruction fails; a(?!b)c matches "ac" and does not match "abc".
C9_NoFramesAfterLookAround ==
    /\ [][(at = "dispatch" /\ Insn.op = "FailNegativeLookAround") =>
            /\ at' = "fail"
            /\ Len(state'.stack) = depthAt[split_of(P.body, pc) + 1]]_vars
    /\ []((Returned /\ prog = "neg") =>
            /\ s = <<97, 99>> => result = "Some"
            /\ s = <<97, 98, 99>> => result = "None")

\* FailNegativeLookAround of a(?!(b)|bc)c has just removed the frame of the
\* alternation in the body and the frame of the look-around's Split
C9_Witness ==
    /\ prog = "neg_alt" /\ s = <<97, 98, 99>>
    /\ at = "fail" /\ pc = 8
    /\ npush = 2 /\ npop = 2
    /\ state.stack = <<>>

\* ---------------------------------------------------------------- C10
\* C10 as stated: (a+)\1 from index 0 matches "aaaa" with group 1 = "aa"
\* and does not match "aaab".
C10_AsStated ==
    (Returned /\ prog = "backref") =>
        /\ s = <<97, 97, 97, 97>> =>
              result = "Some" /\ get(state, 2) = 0 /\ get(state, 3) = 2
        /\ s = aaab => result = "None"

\* C10 amended: (a+)\1 from index 0 matches "aaaa" with group 1 = "aa", and
\* matches "aaab" as well: group 1 = "a" (slots 2 and 3 are 0 and 1) and the
\* match ends at index 2.
C10_BackrefMatches ==
    (Returned /\ prog = "backref") =>
        /\ s = <<97, 97, 97, 97>> =>
              result = "Some" /\ get(state, 2) = 0 /\ get(state, 3) = 2 /\ ix = 4
        /\ s = aaab =>
              result = "Some" /\ get(state, 2) = 0 /\ get(state, 3) = 1 /\ ix = 2

\* (a+)\1 has run on "aaab" and returned the match of "aa" at index 0
C10_Witness ==
    /\ Returned /\ prog = "backref" /\ s = aaab
    /\ result = "Some"
    /\ npop = 3

\* ---------------------------------------------------------------- C11
\* the group of slot is set and its text recurs at ix, within the input
Backref_succeeds(slot) ==
    LET lo == get(state, slot)
        hi == get(state, slot + 1)
    IN /\ lo # USIZE_MAX
       /\ ix + (hi - lo) <= Len(s)
       /\ lo <= hi
       /\ SubSeq(s, ix + 1, ix + (hi - lo)) = SubSeq(s, lo + 1, hi)

\* C11: Backref(slot) succeeds exactly when slots[slot] is set, the copy
\* fits into the input and equals the text of the group; then ix advances by
\* hi - lo and the State is unchanged.  In every other case it fails locally
\* (the failure handler runs next) with the State unchanged; it never ends
\* the run in an error.
C11_BackrefLocalFailure ==
    [][(at = "dispatch" /\ Insn.op = "Backref") =>
         /\ state' = state
         /\ IF Backref_succeeds(Insn.slot)
            THEN /\ at' = "dispatch" /\ pc' = pc + 1
                 /\ ix' = ix + (get(state, Insn.slot + 1) - get(state, Insn.slot))
            ELSE at' = "fail" /\ ix' = ix /\ pc' = pc]_vars

\* ---------------------------------------------------------------- C12
\* the pcs of the counted loops of the program, for the programs that are
\* one counted loop entered at index 0 and never backtracked out of past
\* its Save0
repeat_pcs ==
    IF prog \in {"rep_gr", "rep_ng", "opt_gr", "opt_ng"}
    THEN {p \in 0..(Len(P.body) - 1) :
             P.body[p + 1].op \in {"RepeatGr", "RepeatNg"}}
    ELSE {}

\* the loops of the programs below start at index 0 and their body is one
\* literal: the body iterations completed at ix are the copies of the
\* literal that lie before ix
iterations_done(p) ==
    LET lit == P.body[p + 2].val
    IN IF /\ ix % Len(lit) = 0
          /\ \A k \in 0..(ix - 1) : s[k + 1] = lit[(k % Len(lit)) + 1]
       THEN ix \div Len(lit)
       ELSE -1

\* C12: once Save0 has reset the counter slot, the counter never exceeds hi,
\* and every dispatch of the instruction at `next` finds at least lo and at
\* most hi body iterations completed.  a{2,3}b (and a{2,3}?b) from index 0
\* matches "aab" up to byte 3 and "aaab" up to byte 4, and does not match
\* "ab" or "aaaab".
C12_CountedLoopBounds ==
    /\ \A p \in repeat_pcs :
          LET r == P.body[p + 1]
          IN /\ depthAt[p] # -1 => get(state, r.repeat) <= r.hi
             /\ (at = "dispatch" /\ pc = r.next) =>
                   (r.lo <= iterations_done(p) /\ iterations_done(p) <= r.hi)
    /\ (Returned /\ prog \in {"rep_gr", "rep_ng"}) =>
          /\ s = <<97, 97, 98>> => (result = "Some" /\ ix = 3)
          /\ s = <<97, 97, 97, 98>> => (result = "Some" /\ ix = 4)
          /\ s = <<97, 98>> => result = "None"
          /\ s = <<97, 97, 97, 97, 98>> => result = "None"

\* a{2,3}b has matched "aaab": the loop left through its exit at hi, with
\* the frame pushed after the second iteration still on the stack
C12_Witness ==
    /\ Returned /\ prog = "rep_gr" /\ s = <<97, 97, 97, 98>>
    /\ result = "Some" /\ ix = 4
    /\ get(state, 0) = 3
    /\ state.stack = <<<<4, 2, 1>>>>

\* ---------------------------------------------------------------- C13
\* C13: when the greedy program (a{2,3}b, a{0,2}a) and then its non-greedy
\* counterpart have run from index 0 on the same input, any string of at
\* most MaxLen bytes over {a, b}, the non-greedy run returns a match iff the
\* greedy run returned one.
C13_NgMatchesIffGr ==
    (Returned /\ prev # "none") => ((result = "Some") <=> (prev = "Some"))

\* a{0,2}a and a{0,2}?a have both matched "aab"; the non-greedy match ends
\* after the first byte
C13_Witness ==
    /\ Returned /\ prog = "opt_ng" /\ s = <<97, 97, 98>>
    /\ prev = "Some" /\ result = "Some"
    /\ ix = 1

\* ---------------------------------------------------------------- C14
is_epsilon_dispatch ==
    at = "dispatch" /\ Insn.op \in {"RepeatEpsilonGr", "RepeatEpsilonNg"}

\* C14: a RepeatEpsilonGr / RepeatEpsilonNg dispatched with counter c > lo
\* finds in slots[check] the index at which the previous iteration began; if
\* that is the current ix, the instruction fails and changes nothing, so
\* whenever it goes on to another iteration beyond the lo-th, the previous
\* iteration began at an index other than ix.
C14_EpsilonGuard ==
    [][(is_epsilon_dispatch /\ get(state, Insn.repeat) > Insn.lo) =>
         /\ get(state, Insn.check) = model.saves[iter_slot + 1]
         /\ get(state, Insn.check) = ix => (at' = "fail" /\ state' = state)
         /\ at' # "fail" => model.saves[iter_slot + 1] # ix]_vars

\* the third dispatch of the loop of (a|)*b on "ab" has just failed: the
\* second iteration began at index 1 and matched the empty string
C14_Witness ==
    /\ prog = "eps_gr" /\ s = <<97, 98>>
    /\ at = "fail" /\ pc = 1 /\ ix = 1
    /\ get(state, 0) = 2
    /\ get(state, 1) = 1

\* ---------------------------------------------------------------- C15
\* C15: at every dispatch of a run started at an index within the input and
\* on a code-point boundary, ix is within the input and on a code-point
\* boundary, whichever instruction set it.
C15_IxOnBoundary ==
    at = "dispatch" =>
        (0 <= ix /\ ix <= Len(s) /\ is_char_boundary(s, ix))

\* the second delegate of the program has stepped back over "b", matched
\* "b€" from there and left ix at the end of "éb€"
C15_Witness ==
    /\ prog = "delegate" /\ s = e_acute \o <<98>> \o euro
    /\ at = "dispatch" /\ pc = 2 /\ ix = 6
    /\ get(state, 2) = 2 /\ get(state, 3) = 3

\* ---------------------------------------------------------------- C16
\* the slots named by the undo entries written after the j-th push
undo_slots(st, j) == {st.oldsave[k][1] : k \in undo_range(st, j)}

\* C16: after any sequence of push, pop, save, stack_push, stack_pop and
\* backtrack_cut the undo log is the concatenation of one range per frame
\* and the range of the current frame: its length is state.nsave plus the
\* nsave fields of the frames, and the top state.nsave entries are entries
\* of exactly the slots overwritten since the latest push that is still on
\* the stack (as are, for each frame, the entries of its range).
C16_UndoLogPartitioned ==
    /\ Len(state.oldsave) = state.nsave + sum_nsave(state.stack, 0)
    /\ Len(shadow.touched) = Len(state.stack) + 1
    /\ undo_slots(state, Len(state.stack)) = shadow.touched[Len(state.stack) + 1]
    /\ \A j \in 0..Len(state.stack) : undo_slots(state, j) = shadow.touched[j + 1]

\* a backtrack_cut has emptied the stack and folded into the one range left
\* the entries of a slot saved, of the explicit-stack pointer and of an
\* explicit-stack slot that was overwritten
C16_Witness ==
    /\ lastOp = "cut"
    /\ folded
    /\ state.stack = <<>>
    /\ state.nsave = 3
    /\ shadow.touched = <<{0, 1, 2}>>

\* ---------------------------------------------------------------- C17
\* C17: the top state.nsave entries of the undo log name pairwise distinct
\* slots in every reachable state, among them the states left by a
\* backtrack_cut that folded the ranges of the discarded frames into the
\* surviving one.
C17_OneEntryPerSlot ==
    \A k1, k2 \in undo_range(state, Len(state.stack)) :
        k1 # k2 => state.oldsave[k1][1] # state.oldsave[k2][1]

\* a backtrack_cut has folded into the range of the frame left on top a
\* range that held an entry of a slot the surviving range holds as well,
\* and an entry of another slot
C17_Witness ==
    /\ lastOp = "cut"
    /\ folded
    /\ shadow.dup
    /\ Len(state.stack) = 1
    /\ state.nsave = 2
    /\ undo_slots(state, 1) = {0, 1}

\* ---------------------------------------------------------------- C18
\* C18: the explicit stack read off the slots (pointer in slot n_saves,
\* values below the pointer) is what a plain sequence would hold that is
\* copied at every push of a frame and brought back at its pop; so after a
\* pop the pointer and the values below it are what they were when the
\* popped frame was pushed, whatever stack_push and stack_pop did in
\* between, also when stack_push appended slots.
C18_ExplicitStackUndone ==
    /\ [](explicit_stack(state) = shadow.exp)
    /\ [][lastOp' = "pop" =>
            LET at_push == shadow.exps[Len(shadow.exps)]
            IN /\ explicit_pointer(state') = state.explicit_sp + 1 + Len(at_push)
               /\ explicit_stack(state') = at_push]_vars

\* a frame was pushed over an explicit stack of one value; in the frame
\* stack_push appended a slot for a second value, stack_pop removed it and
\* stack_push wrote it again; the pop of the frame has brought back the
\* pointer, with the appended slot left behind above it
C18_Witness ==
    /\ lastOp = "pop"
    /\ shadow.undone = 3
    /\ Len(state.saves) = 4
    /\ explicit_stack(state) = <<0>>
    /\ state.saves[3] = 0 /\ state.saves[4] = 1

\* ---------------------------------------------------------------- C19
\* the counted loops a{lo,hi} with a literal continuation: the loop
\* instruction is at pc 1, its body at pc 2 and the continuation at pc 4
CountedProgs == {"rep_gr", "rep_ng", "opt_gr", "opt_ng"}

RECURSIVE copies(_, _)
copies(val, k) == IF k = 0 THEN <<>> ELSE val \o copies(val, k - 1)

\* the iteration counts with which the program matches s from index 0
feasible ==
    {k \in (P.body[2].lo)..(P.body[2].hi) :
        LET w == copies(P.body[3].val, k) \o P.body[5].val
        IN Len(w) <= Len(s) /\ SubSeq(s, 1, Len(w)) = w}

\* the iteration count of the match that ends at ix
iterations_used == (ix - Len(P.body[5].val)) \div Len(P.body[3].val)

\* C19: dispatched with lo <= c < hi, RepeatGr goes on into the body at
\* pc + 1 and leaves the frame (next, ix) for backtracking, and RepeatNg
\* goes on at next and leaves the frame (pc + 1, ix); ix is unchanged.  The
\* match returned uses the largest feasible iteration count with RepeatGr
\* and the smallest with RepeatNg, and no match is returned only if no
\* count is feasible.
C19_GreedyOrder ==
    /\ [][(/\ at = "dispatch" /\ Insn.op \in {"RepeatGr", "RepeatNg"}
           /\ get(state, Insn.repeat) >= Insn.lo
           /\ get(state, Insn.repeat) < Insn.hi
           /\ at' = "dispatch") =>
            LET top == state'.stack[Len(state'.stack)]
            IN /\ Len(state'.stack) = Len(state.stack) + 1
               /\ ix' = ix /\ top[2] = ix
               /\ Insn.op = "RepeatGr" => (pc' = pc + 1 /\ top[1] = Insn.next)
               /\ Insn.op = "RepeatNg" => (pc' = Insn.next /\ top[1] = pc + 1)]_vars
    /\ []((Returned /\ prog \in CountedProgs) =>
            /\ result \in {"Some", "None"}
            /\ (result = "Some") <=> (feasible # {})
            /\ result = "Some" =>
                  /\ iterations_used \in feasible
                  /\ prog \in {"rep_gr", "opt_gr"} =>
                        \A k \in feasible : k <= iterations_used
                  /\ prog \in {"rep_ng", "opt_ng"} =>
                        \A k \in feasible : k >= iterations_used)

\* a{0,2}a has matched "aab" with one iteration: the match with two
\* iterations was tried first and failed at "b"
C19_Witness ==
    /\ Returned /\ prog = "opt_gr" /\ s = <<97, 97, 98>>
    /\ result = "Some" /\ ix = 2
    /\ npush = 2 /\ npop = 1

\* ---------------------------------------------------------------- C20
\* the zero-width test of the loop instruction being dispatched passes
epsilon_goes_on ==
    /\ is_epsilon_dispatch
    /\ ~(get(state, Insn.repeat) > Insn.lo /\ get(state, Insn.check) = ix)

\* the branch of the counted loops, taken with counter c: from lo on a
\* frame is pushed, for the exit of the loop (RepeatEpsilonGr, going on
\* into the body) or for the body (RepeatEpsilonNg, going on at next)
branches_as_counted(c) ==
    IF c >= Insn.lo
    THEN LET top == state'.stack[Len(state'.stack)]
         IN /\ Len(state'.stack) = Len(state.stack) + 1
            /\ top[2] = ix
            /\ Insn.op = "RepeatEpsilonGr" => (pc' = pc + 1 /\ top[1] = Insn.next)
            /\ Insn.op = "RepeatEpsilonNg" => (pc' = Insn.next /\ top[1] = pc + 1)
    ELSE state'.stack = state.stack /\ pc' = pc + 1

\* C20 as stated: every dispatch of RepeatEpsilonGr / RepeatEpsilonNg that
\* passes the zero-width test increments the counter slot, stores ix into
\* the check slot whatever the counter is, and branches as the counted
\* loops do.
C20_AsStated ==
    [][(epsilon_goes_on /\ at' = "dispatch") =>
         /\ get(state', Insn.repeat) = get(state, Insn.repeat) + 1
         /\ get(state', Insn.check) = ix
         /\ ix' = ix
         /\ branches_as_counted(get(state, Insn.repeat))]_vars

\* C20 amended: every such dispatch increments the counter slot and
\* branches as the counted loops do (without an exit at hi); it stores ix
\* into the check slot if the counter it read is at least lo, and leaves
\* the check slot as it is if the counter is below lo.
C20_CheckStoredFromLo ==
    [][(epsilon_goes_on /\ at' = "dispatch") =>
         /\ get(state', Insn.repeat) = get(state, Insn.repeat) + 1
         /\ get(state, Insn.repeat) >= Insn.lo => get(state', Insn.check) = ix
         /\ get(state, Insn.repeat) < Insn.lo =>
               get(state', Insn.check) = get(state, Insn.check)
         /\ ix' = ix
         /\ branches_as_counted(get(state, Insn.repeat))]_vars

\* the loop of (a|)+b has been dispatched for the first time on "ab": the
\* counter is 1, the first iteration has consumed "a" and the check slot is
\* still unset
C20_Witness ==
    /\ prog = "eps1_gr" /\ s = <<97, 98>>
    /\ at = "dispatch" /\ pc = 4 /\ ix = 1
    /\ get(state, 0) = 1
    /\ get(state, 1) = USIZE_MAX

\* ---------------------------------------------------------------- C21
\* the programs that loop a RepeatEpsilon instruction over a body that can
\* match the empty string, with lo = 0, 1 and 2
EpsProgs == {"eps_gr", "eps_ng", "eps1_gr", "eps1_ng", "eps2_gr", "eps2_ng"}

\* C21: the run of a program that loops RepeatEpsilonGr or RepeatEpsilonNg
\* (counter reset by Save0) over a body that can match the empty string ends
\* on every input: it returns a match, no match or StackOverflow, and does
\* not go round the loop for ever.
C21_EpsilonLoopTerminates ==
    (prog \in EpsProgs) ~>
        (at = "returned" /\ result \in {"Some", "None", "StackOverflow"})

\* (a|)*?b on "a" has returned no match: the loop was entered again at the
\* end of the input after an iteration that matched the empty string there,
\* and was refused
C21_Witness ==
    /\ prog = "eps_ng" /\ s = <<97>>
    /\ at = "returned" /\ result = "None"
    /\ depthAt[2] >= 0
    /\ npop >= 4

\* ---------------------------------------------------------------- C22
\* the slot vector at the latest dispatch of the Split that introduces the
\* look-around ended at pc f
slots_before(f) == slotsAt[split_of(P.body, f) + 1]

\* C22: when FailNegativeLookAround has finished unwinding, every slot that
\* existed when the Split of the look-around was dispatched (capture bounds,
\* repeat counters, slots of the explicit stack) holds the value it had
\* then, and the explicit stack holds the values it held then: the writes of
\* the body of the look-around are undone.
C22_LookAroundWritesUndone ==
    [][(at = "dispatch" /\ Insn.op = "FailNegativeLookAround") =>
         /\ \A i \in 1..Len(slots_before(pc)) :
                state'.saves[i] = slots_before(pc)[i]
         /\ explicit_stack(state') =
                explicit_stack([state EXCEPT !.saves = slots_before(pc)])]_vars

\* FailNegativeLookAround of (?>a)(?!(?>(b){1,2})c)b has unwound on "abbc":
\* the body had set the group, counted two iterations and used the explicit
\* stack; the slots are again those of the dispatch of the Split
C22_Witness ==
    /\ prog = "atomic_neg" /\ s = <<97, 98, 98, 99>>
    /\ at = "fail" /\ pc = 13
    /\ slotsAt[14][3] = 2 /\ slotsAt[14][4] = 3
    /\ slotsAt[14][5] = 2 /\ slotsAt[14][7] = 1
    /\ state.saves = slotsAt[4]
    /\ state.saves[3] = USIZE_MAX /\ state.saves[5] = USIZE_MAX
    /\ state.saves[7] = 0
    /\ state.stack = <<>>

\* ---------------------------------------------------------------- C23
\* C23: whenever Backref(slot) is dispatched with slots[slot] set,
\* slots[slot + 1] is set as well and slots[slot] <= slots[slot + 1] <=
\* len(s), so that hi - lo and ix + (hi - lo) stay within the machine word
\* and s[lo..hi] is in range.
C23_BackrefBoundsSet ==
    (at = "dispatch" /\ Insn.op = "Backref"
        /\ get(state, Insn.slot) # USIZE_MAX) =>
            /\ get(state, Insn.slot + 1) # USIZE_MAX
            /\ get(state, Insn.slot) <= get(state, Insn.slot + 1)
            /\ get(state, Insn.slot + 1) <= Len(s)
            /\ ix + (get(state, Insn.slot + 1) - get(state, Insn.slot))
                   <= USIZE_MAX

\* ---------------------------------------------------------------- C24
\* C24: backtrack_cut(count) leaves every value of the slot vector as it
\* was, leaves the frames at heights below count as they were (pc, ix and
\* saved nsave) and removes the others, touches nothing but the stack, the
\* undo log and nsave, and changes nothing at all when the stack height is
\* count already.  count is the height the truncated reference stack has.
C24_CutKeepsSlotsAndLowerFrames ==
    [][lastOp' = "cut" =>
         LET count == Len(model'.stack)
         IN /\ state'.saves = state.saves
            /\ state'.stack = SubSeq(state.stack, 1, count)
            /\ state'.max_stack = state.max_stack
            /\ state'.explicit_sp = state.explicit_sp
            /\ Len(state.stack) = count => state' = state]_vars

\* a cut has discarded frames and kept undo entries of theirs, one frame is
\* left below it and the slot still holds the value written above that frame
C24_Witness ==
    /\ lastOp = "cut"
    /\ folded
    /\ Len(state.stack) = 1
    /\ state.nsave >= 1
    /\ get(state, 0) \in Vals

====
